---- MODULE Spec2Model ----
(***************************************************************************)
(* kubectl-select: binding registry, selection context and dispatch loop.  *)
(* Strings are sequences of one-character strings; Option<T> is a sequence *)
(* of length 0 (None) or 1 (Some).                                         *)
(***************************************************************************)
EXTENDS Integers, Sequences, FiniteSets

\* ------------------------------------------------------------------ bounds
\* rows (after the header) in a listing
MaxRows == 2
\* rows the picker returns
MaxSel == 2
\* widest listing header, in columns
MaxHeaderCols == 21
\* bindings a registration sequence holds (RegistrySpec)
MaxAdds == 2
\* chunks the logs stream delivers before it closes
MaxChunks == 2

\* 19 function keys (main.rs:171)
MaxFunctionKeys == 19
\* minimal cell width and padding of TabWriter::new (kubectl.rs:69)
TabMinWidth == 2
TabPadding == 2

\* ----------------------------------------------------------------- strings
None == <<>>
Some(x) == <<x>>

Range(s) == {s[i] : i \in 1..Len(s)}

\* the characters in use, in byte order (ESC stands for the byte 0x1b)
Alphabet ==
  << "\t", "\n", "ESC", " ", "-", "0", "1", "2", "3", "4", "5", "6", "7", "8", "9", ":",
     "A", "B", "C", "D", "E", "F", "G", "H", "I", "J", "K", "L", "M", "N", "O", "P", "Q",
     "R", "S", "T", "U", "V", "W", "X", "Y", "Z", "[",
     "a", "b", "c", "d", "e", "f", "g", "h", "i", "j", "k", "l", "m", "n", "o", "p", "q",
     "r", "s", "t", "u", "v", "w", "x", "y", "z" >>

Code(c) == CHOOSE i \in 1..Len(Alphabet) : Alphabet[i] = c

\* char::is_whitespace, on the characters in use
IsWhitespace(c) == c \in {" ", "\t", "\n"}

\* str::cmp: bytewise lexicographic order (Vec<String>::sort uses it)
RECURSIVE StrLeq(_, _)
StrLeq(a, b) ==
  IF a = <<>> THEN TRUE
  ELSE IF b = <<>> THEN FALSE
  ELSE IF Head(a) = Head(b) THEN StrLeq(Tail(a), Tail(b))
  ELSE Code(Head(a)) < Code(Head(b))

\* [String]::join(sep)
RECURSIVE Join(_, _)
Join(strs, sep) ==
  IF strs = <<>> THEN <<>>
  ELSE IF Len(strs) = 1 THEN strs[1]
  ELSE strs[1] \o sep \o Join(Tail(strs), sep)

\* str::split_whitespace: the maximal runs of non-whitespace characters
RECURSIVE SplitWs(_, _, _)
SplitWs(line, cur, acc) ==
  IF line = <<>> THEN (IF cur = <<>> THEN acc ELSE Append(acc, cur))
  ELSE IF IsWhitespace(Head(line))
       THEN SplitWs(Tail(line), <<>>, IF cur = <<>> THEN acc ELSE Append(acc, cur))
       ELSE SplitWs(Tail(line), Append(cur, Head(line)), acc)

split_whitespace(line) == SplitWs(line, <<>>, <<>>)

\* usize Display: decimal digits
Digits == <<"0", "1", "2", "3", "4", "5", "6", "7", "8", "9">>

RECURSIVE to_string(_)
to_string(n) ==
  IF n < 10 THEN <<Digits[n + 1]>>
  ELSE to_string(n \div 10) \o <<Digits[(n % 10) + 1]>>

Min(a, b) == IF a < b THEN a ELSE b
Max(a, b) == IF a < b THEN b ELSE a

\* str::split(sep), for a one-character separator: the pieces between the
\* separators, in order
Split(text, sep) ==
  LET at == {i \in 1..Len(text) : text[i] = sep}
      n == Cardinality(at)
      pos(k) == CHOOSE i \in at : Cardinality({j \in at : j < i}) = k - 1
      from(k) == IF k = 1 THEN 1 ELSE pos(k - 1) + 1
      to(k) == IF k = n + 1 THEN Len(text) ELSE pos(k) - 1
  IN [k \in 1..(n + 1) |-> SubSeq(text, from(k), to(k))]

\* str::lines: the text split at line feeds; a final empty line is no line
lines(text) ==
  LET pieces == Split(text, "\n")
  IN IF pieces[Len(pieces)] = <<>> THEN SubSeq(pieces, 1, Len(pieces) - 1) ELSE pieces

\* a collection in some iteration order (HashMap::keys, HashMap::values)
RECURSIVE IterOrder(_)
IterOrder(S) ==
  IF S = {} THEN <<>>
  ELSE LET x == CHOOSE y \in S : TRUE IN <<x>> \o IterOrder(S \ {x})

\* ---------------------------------------------------------------- bindings
S_enter == <<"e", "n", "t", "e", "r">>
S_Names == <<"N", "a", "m", "e", "s">>
S_Json == <<"J", "s", "o", "n">>
S_Yaml == <<"Y", "a", "m", "l">>
S_Describe == <<"D", "e", "s", "c", "r", "i", "b", "e">>
S_Edit == <<"E", "d", "i", "t">>
S_Logs == <<"L", "o", "g", "s">>
S_Copy == <<"C", "o", "p", "y">>
S_Cordon == <<"C", "o", "r", "d", "o", "n">>
S_Uncordon == <<"U", "n", "c", "o", "r", "d", "o", "n">>
S_ctrl == <<"c", "t", "r", "l", "-">>
S_space == <<"s", "p", "a", "c", "e">>
S_pod == <<"p", "o", "d">>
S_pods == <<"p", "o", "d", "s">>
S_po == <<"p", "o">>
S_node == <<"n", "o", "d", "e">>
S_nodes == <<"n", "o", "d", "e", "s">>
S_no == <<"n", "o">>
S_svc == <<"s", "v", "c">>

Static(kind) == [kind |-> kind, name |-> <<>>, index |-> 0]
Names == Static("Names")
Json == Static("Json")
Yaml == Static("Yaml")
Describe == Static("Describe")
Edit == Static("Edit")
Logs == Static("Logs")
Cordon == Static("Cordon")
Uncordon == Static("Uncordon")
Copy == Static("Copy")

\* Column::new
Column(name, index) == [kind |-> "Column", name |-> name, index |-> index]

accepts_pods == <<S_pods, S_pod, S_po>>
accepts_nodes == <<S_nodes, S_node, S_no>>

\* Binding::key with the key of a Column made from its name
key_by_name(b) ==
  CASE b.kind = "Names" -> <<>>
    [] b.kind = "Json" -> S_ctrl \o <<"j">>
    [] b.kind = "Yaml" -> S_ctrl \o <<"y">>
    [] b.kind = "Describe" -> S_ctrl \o <<"d">>
    [] b.kind = "Edit" -> S_ctrl \o <<"e">>
    [] b.kind = "Logs" -> S_ctrl \o <<"l">>
    [] b.kind = "Copy" -> S_ctrl \o S_space
    [] b.kind = "Cordon" -> S_ctrl \o <<"k">>
    [] b.kind = "Uncordon" -> S_ctrl \o <<"u">>
    [] b.kind = "Column" -> <<"f">> \o b.name

\* Binding::key
key(b) ==
  CASE b.kind = "Names" -> <<>>
    [] b.kind = "Json" -> S_ctrl \o <<"j">>
    [] b.kind = "Yaml" -> S_ctrl \o <<"y">>
    [] b.kind = "Describe" -> S_ctrl \o <<"d">>
    [] b.kind = "Edit" -> S_ctrl \o <<"e">>
    [] b.kind = "Logs" -> S_ctrl \o <<"l">>
    [] b.kind = "Copy" -> S_ctrl \o S_space
    [] b.kind = "Cordon" -> S_ctrl \o <<"k">>
    [] b.kind = "Uncordon" -> S_ctrl \o <<"u">>
    [] b.kind = "Column" -> <<"f">> \o to_string(b.index)

\* Binding::description
description(b) ==
  CASE b.kind = "Names" -> S_Names
    [] b.kind = "Json" -> S_Json
    [] b.kind = "Yaml" -> S_Yaml
    [] b.kind = "Describe" -> S_Describe
    [] b.kind = "Edit" -> S_Edit
    [] b.kind = "Logs" -> S_Logs
    [] b.kind = "Copy" -> S_Copy
    [] b.kind = "Cordon" -> S_Cordon
    [] b.kind = "Uncordon" -> S_Uncordon
    [] b.kind = "Column" -> to_string(b.index) \o <<":">> \o b.name

\* accepts left at the empty list for every binding
accepts_nothing_listed(b) == <<>>

\* Binding::accepts
accepts(b) ==
  CASE b.kind = "Logs" -> accepts_pods
    [] b.kind \in {"Cordon", "Uncordon"} -> accepts_nodes
    [] OTHER -> <<>>

\* Iterator::any(|r| r == resource)
RECURSIVE AnyEq(_, _)
AnyEq(list, resource) ==
  IF list = <<>> THEN FALSE
  ELSE IF Head(list) = resource THEN TRUE
  ELSE AnyEq(Tail(list), resource)

\* runs_for that lets every binding run
runs_for_always(b, resource) == TRUE

\* runs_for without the is_empty case
runs_for_listed(b, resource) == AnyEq(accepts(b), resource)

\* Binding::runs_for
runs_for(b, resource) ==
  LET acc == accepts(b) IN Len(acc) = 0 \/ AnyEq(acc, resource)

\* Binding::preview
preview(b) ==
  LET key_repr == IF key(b) = <<>> THEN S_enter ELSE key(b)
  IN <<"ESC", "[", "3", "1", "m">> \o description(b) \o <<"\t">>
       \o <<"ESC", "[", "3", "3", "m">> \o key_repr \o <<"ESC", "[", "0", "m">>

\* ---------------------------------------------------------------- registry
\* HashMap::contains_key
contains_key(map, k) == k \in DOMAIN map

\* HashMap::insert
insert(map, k, v) == [x \in DOMAIN map \cup {k} |-> IF x = k THEN v ELSE map[x]]

\* add_binding without its contains_key check
add_binding_unchecked(map, b) == [panic |-> FALSE, map |-> insert(map, key(b), b)]

\* Opts::add_binding: the registry afterwards, or a panic that leaves it alone
add_binding(map, b) ==
  IF contains_key(map, key(b))
  THEN [panic |-> TRUE, map |-> map]
  ELSE [panic |-> FALSE, map |-> insert(map, key(b), b)]

\* the bindings of Opts::setup_bindings, in its order
StaticBindings == <<Names, Json, Yaml, Describe, Edit, Logs, Cordon, Uncordon, Copy>>

\* the Column bindings without the cap on their number
ColumnBindingsUncapped(header) ==
  LET header_columns == split_whitespace(header)
  IN [i \in 1..Max(Len(header_columns) - 1, 0) |-> Column(header_columns[i + 1], i)]

\* the Column bindings of Opts::kubectl_get for a header line
ColumnBindings(header) ==
  LET header_columns == split_whitespace(header)
      max_columns == Min(Len(header_columns), MaxFunctionKeys)
      skipped == Max(Len(header_columns) - 1, 0)
  IN [i \in 1..Min(skipped, max_columns) |-> Column(header_columns[i + 1], i)]

\* ------------------------------------------------------------------ inputs
ColLetters ==
  << "A", "B", "C", "D", "E", "F", "G", "H", "I", "J", "K", "L", "M",
     "N", "O", "P", "Q", "R", "S", "T", "U", "V", "W", "X", "Y", "Z" >>

\* a header line of n one-letter column names
HeaderN(n) == Join([i \in 1..n |-> <<ColLetters[i]>>], <<" ">>)

H_Name == <<"N", "A", "M", "E">>
H_NameStatusAge ==
  H_Name \o <<" ", "S", "T", "A", "T", "U", "S", " ", "A", "G", "E">>
H_Repeated == H_Name \o <<" ", "I", "P", " ", " ", "I", "P">>

\* header lines kubectl may print: no, one and three columns, a repeated column
\* name; and wide ones, at and over the function key count
Headers == {<<>>, H_Name, H_NameStatusAge, H_Repeated}

WideHeaders == {HeaderN(MaxHeaderCols - 1), HeaderN(MaxHeaderCols)}

S_Running == <<"R", "u", "n", "n", "i", "n", "g">>
S_Pending == <<"P", "e", "n", "d", "i", "n", "g">>
R_a == <<"a", " ">> \o S_Running \o <<" ", "1", "d">>
R_b == <<"b", " ", " ">> \o S_Pending \o <<"\t", "2", "d">>
R_c == <<" ", "c">>
R_blank == <<" ">>
R_wide == HeaderN(MaxHeaderCols - 1)

\* row lines: full rows, a one-column row with leading blank, a blank row
Rows == {R_a, R_b, R_c, R_blank}

RECURSIVE SeqsUpTo(_, _)
SeqsUpTo(S, n) ==
  IF n = 0 THEN {<<>>}
  ELSE LET shorter == SeqsUpTo(S, n - 1)
       IN shorter \cup {Append(q, x) : q \in shorter, x \in S}

\* every line followed by a line feed
RECURSIVE Unlines(_)
Unlines(ls) == IF ls = <<>> THEN <<>> ELSE Head(ls) \o <<"\n">> \o Unlines(Tail(ls))

\* what `kubectl get` may write to its standard output
Listings ==
  {<<>>}
    \cup {Unlines(<<h>> \o rs) : h \in Headers, rs \in SeqsUpTo(Rows, MaxRows)}
    \cup {Unlines(<<h>> \o rs) : h \in WideHeaders, rs \in SeqsUpTo({R_wide}, 1)}

\* the resource argument (default "pod")
Resources == {S_pod, S_node, S_svc}

\* what a captured kubectl command may write
Outputs == {<<"o", "k", "\n">>}

\* a key skim reports that was not among the expected ones
UnknownKey == <<"e", "s", "c">>

\* sequences of distinct indices into 1..n, at most m long
RECURSIVE Picks(_, _)
Picks(n, m) ==
  IF m = 0 THEN {<<>>}
  ELSE LET shorter == Picks(n, m - 1)
       IN shorter \cup {Append(q, i) : q \in shorter, i \in 1..n} 

DistinctPicks(n, m) == {q \in Picks(n, m) : \A i, j \in 1..Len(q) : i # j => q[i] # q[j]}

\* ------------------------------------------------------------------- state
VARIABLES
  pc,            \* where the main thread is
  namespace,     \* Opts::namespace
  resource,      \* Opts::resource
  cluster,       \* what `kubectl get` answers: None (it cannot run) or Some(stdout)
  bindings,      \* Opts::bindings, the registry: key -> binding
  todo,          \* the bindings the running registration loop has yet to add
  kubectl_lines, \* kubectl_get's lines
  kubectl_output,\* Option<KubectlOutput>
  options,       \* Option<SkimOptions>: prompt, header, expect
  channel,       \* the items sent to skim
  picked,        \* Option<(selected_items, key)>, what Skim::run_with gave
  ctx,           \* Option<BindingContext>
  binding,       \* Option<binding>: the one handle_output found and runs
  lookups,       \* the keys handle_output looked up in the registry
  final_output,  \* Option<String>, what Opts::run returns
  stdout,        \* what the process has printed
  calls,         \* the external commands started by bindings
  clipboard,     \* Option<String>, the clipboard contents set
  shown,         \* Option<String>, the last ItemPreview skim was given
  guard,         \* who holds the registry mutex
  chunks,        \* chunks read from the logs stream
  runs,          \* the binding.run calls of handle_output: binding and context
  failed,        \* an external call of the binding's run gave an error
  stream         \* the logs stream: "none", "open" or "closed"

vars ==
  << pc, namespace, resource, cluster, bindings, todo, kubectl_lines, kubectl_output,
     options, channel, picked, ctx, binding, lookups, final_output, stdout, calls,
     clipboard, shown, guard, chunks, runs, failed, stream >>

Namespaces == {None, Some(<<"n", "s">>)}

InitRest ==
  /\ pc = "setup"
  /\ bindings = <<>>
  /\ kubectl_lines = <<>>
  /\ kubectl_output = None
  /\ options = None
  /\ channel = <<>>
  /\ picked = None
  /\ ctx = None
  /\ binding = None
  /\ lookups = <<>>
  /\ final_output = None
  /\ stdout = <<>>
  /\ calls = <<>>
  /\ clipboard = None
  /\ shown = None
  /\ guard = "free"
  /\ chunks = 0
  /\ runs = <<>>
  /\ failed = FALSE
  /\ stream = "none"

\* main: Opts::parse without --namespace, then setup_bindings is about to run
Init ==
  /\ namespace = None
  /\ resource \in Resources
  /\ cluster \in {None} \cup {Some(t) : t \in Listings}
  /\ todo = StaticBindings
  /\ InitRest

\* bindings a registry may be asked to hold: two of them share the key f1 with
\* each other and with the first header column
Candidates == {Names, Json, Edit, Copy, Logs, Column(<<"X">>, 1), Column(<<"Y">>, 1)}

RegistrationLists == SeqsUpTo(Candidates, MaxAdds) \cup {StaticBindings}

RegistryListings ==
  {Unlines(<<H_NameStatusAge, R_a, R_b>>), Unlines(<<H_Name, R_a>>)}

\* main with any list of bindings for setup_bindings to add
InitRegistry ==
  /\ namespace \in Namespaces
  /\ resource \in Resources
  /\ cluster \in {Some(t) : t \in RegistryListings}
  /\ todo \in RegistrationLists
  /\ InitRest

\* Mutex::lock returns once nobody holds the guard; a thread that asks for it
\* while it is held, by itself too, waits
lockable(g) == g = "free"

\* Mutex::lock: the guard afterwards
lock(g, who) == who

\* a MutexGuard that is never dropped
unlock_leaked(g, who) == g

\* the MutexGuard is dropped: the guard afterwards
unlock(g, who) == IF g = who THEN "free" ELSE g

\* one add_binding call of the running registration loop: the guard is taken
\* for contains_key and dropped with the condition, then taken for insert
AddNext ==
  LET r == add_binding(bindings, Head(todo))
      checked == unlock(lock(guard, "main"), "main")
  IN /\ lockable(guard)
     /\ bindings' = r.map
     /\ IF r.panic
        THEN pc' = "panicked" /\ todo' = todo /\ guard' = checked
        ELSE /\ lockable(checked)
             /\ guard' = unlock(lock(checked, "main"), "main")
             /\ pc' = pc
             /\ todo' = Tail(todo)

\* Opts::setup_bindings: its next add_binding
SetupBinding ==
  /\ pc = "setup"
  /\ todo # <<>>
  /\ AddNext
  /\ UNCHANGED << namespace, resource, cluster, kubectl_lines, kubectl_output, options,
                  channel, picked, ctx, binding, lookups, final_output, stdout, calls,
                  clipboard, shown, chunks, runs, failed, stream >>

\* kubectl_base_cmd: the command line as a record
kubectl_base_cmd(ns, command, res) == [verb |-> command, resource |-> res, namespace |-> ns]

\* kubectl_get taking an empty header when the output has no line
KubectlGetUnchecked ==
  /\ pc = "setup"
  /\ todo = <<>>
  /\ IF cluster = None
     THEN /\ pc' = "print"
          /\ UNCHANGED << kubectl_lines, todo >>
     ELSE /\ kubectl_lines' = IF lines(cluster[1]) = <<>> THEN << <<>> >>
                              ELSE lines(cluster[1])
          /\ todo' = ColumnBindings(Head(kubectl_lines'))
          /\ pc' = "columns"
  /\ UNCHANGED << namespace, resource, cluster, bindings, kubectl_output, options,
                  channel, picked, ctx, binding, lookups, final_output, stdout, calls,
                  clipboard, shown, guard, chunks, runs, failed, stream >>

\* Opts::kubectl_get up to the header: capture, lines, first()
KubectlGet ==
  /\ pc = "setup"
  /\ todo = <<>>
  /\ IF cluster = None \/ lines(cluster[1]) = <<>>
     THEN /\ pc' = "print"
          /\ UNCHANGED << kubectl_lines, todo >>
     ELSE /\ kubectl_lines' = lines(cluster[1])
          /\ todo' = ColumnBindings(Head(kubectl_lines'))
          /\ pc' = "columns"
  /\ UNCHANGED << namespace, resource, cluster, bindings, kubectl_output, options,
                  channel, picked, ctx, binding, lookups, final_output, stdout, calls,
                  clipboard, shown, guard, chunks, runs, failed, stream >>

\* Opts::kubectl_get: the next add_binding of its loop over the header columns
AddColumn ==
  /\ pc = "columns"
  /\ todo # <<>>
  /\ AddNext
  /\ UNCHANGED << namespace, resource, cluster, kubectl_lines, kubectl_output, options,
                  channel, picked, ctx, binding, lookups, final_output, stdout, calls,
                  clipboard, shown, chunks, runs, failed, stream >>

\* KubectlItem::new
KubectlItem(inner, res) == [inner |-> inner, resource |-> res]

\* the expect option without the empty key
expect_keys_named(map) == Join(IterOrder(DOMAIN map \ {<<>>}), <<",">>)

\* the expect option with a key no binding has
expect_keys_extra(map) == Join(IterOrder(DOMAIN map \cup {<<"e", "s", "c">>}), <<",">>)

\* the expect option: the registry's keys, comma separated
expect_keys(map) == Join(IterOrder(DOMAIN map), <<",">>)

\* the picker is started when the header is known, before the loop over its
\* columns has run
StartSkimEarly ==
  /\ pc = "columns"
  /\ lockable(guard)
  /\ guard' = unlock(lock(guard, "main"), "main")
  /\ kubectl_output' =
       Some([header |-> Head(kubectl_lines),
             items |-> [i \in 1..(Len(kubectl_lines) - 1) |->
                          KubectlItem(kubectl_lines[i + 1], resource)]])
  /\ options' = Some([prompt |-> resource \o <<" ">>,
                      header |-> Head(kubectl_lines),
                      expect |-> expect_keys(bindings)])
  /\ channel' = kubectl_output'[1].items
  /\ pc' = "skim"
  /\ UNCHANGED << namespace, resource, cluster, bindings, todo, kubectl_lines, picked,
                  ctx, binding, lookups, final_output, stdout, calls, clipboard, shown,
                  chunks, runs, failed, stream >>

\* the end of Opts::kubectl_get and Opts::run up to Skim::run_with: the output
\* is built, the options are set and every item is sent
StartSkim ==
  /\ pc = "columns"
  /\ todo = <<>>
  /\ lockable(guard)
  /\ guard' = unlock(lock(guard, "main"), "main")
  /\ kubectl_output' =
       Some([header |-> Head(kubectl_lines),
             items |-> [i \in 1..(Len(kubectl_lines) - 1) |->
                          KubectlItem(kubectl_lines[i + 1], resource)]])
  /\ options' = Some([prompt |-> resource \o <<" ">>,
                      header |-> Head(kubectl_lines),
                      expect |-> expect_keys(bindings)])
  /\ channel' = kubectl_output'[1].items
  /\ pc' = "skim"
  /\ UNCHANGED << namespace, resource, cluster, bindings, todo, kubectl_lines, picked,
                  ctx, binding, lookups, final_output, stdout, calls, clipboard, shown,
                  chunks, runs, failed, stream >>

\* Vec<String>::sort, by insertion
RECURSIVE InsertSorted(_, _)
InsertSorted(sorted, x) ==
  IF sorted = <<>> THEN <<x>>
  ELSE IF StrLeq(x, Head(sorted)) THEN <<x>> \o sorted
  ELSE <<Head(sorted)>> \o InsertSorted(Tail(sorted), x)

\* no sort at all
Unsorted(strs) == strs

RECURSIVE Sort(_)
Sort(strs) == IF strs = <<>> THEN <<>> ELSE InsertSorted(Sort(Tail(strs)), Head(strs))

RECURSIVE Spaces(_)
Spaces(n) == IF n <= 0 THEN <<>> ELSE <<" ">> \o Spaces(n - 1)

RECURSIVE MaxLen(_)
MaxLen(cells) == IF cells = <<>> THEN 0 ELSE Max(Len(Head(cells)), MaxLen(Tail(cells)))

\* TabWriter over lines that each hold one tab: the cell before the tab is
\* padded to the widest such cell plus the padding, the rest follows
TabWrite(text) ==
  LET ls == Split(text, "\n")
      cells == [i \in 1..Len(ls) |-> Split(ls[i], "\t")]
      width == Max(TabMinWidth, MaxLen([i \in 1..Len(ls) |-> cells[i][1]]) + TabPadding)
  IN Join([i \in 1..Len(ls) |->
             cells[i][1] \o Spaces(width - Len(cells[i][1])) \o cells[i][2]],
          <<"\n">>)

toggle_preview ==
  <<"ESC", "[", "3", "1", "m", "T", "o", "g", "g", "l", "e", " ",
    "P", "r", "e", "v", "i", "e", "w", "\t",
    "ESC", "[", "3", "3", "m", "c", "t", "r", "l", "-", "p", "ESC", "[", "0", "m">>

\* the previews of the bindings that run for the resource, then the always keys
PreviewLines(map, res) ==
  LET values == IterOrder({map[k] : k \in DOMAIN map})
      applicable == SelectSeq(values, LAMBDA b : runs_for(b, res))
  IN [i \in 1..Len(applicable) |-> preview(applicable[i])] \o <<toggle_preview>>

\* KubectlItem::preview
item_preview(item, map) ==
  LET sorted_previews == Sort(PreviewLines(map, item.resource))
      preview_str == Join(sorted_previews, <<"\n">>)
  IN TabWrite(preview_str)

\* skim asks an item for its preview while it runs
Preview ==
  /\ pc = "skim"
  /\ lockable(guard)
  /\ \E i \in 1..Len(channel) : shown' = Some(item_preview(channel[i], bindings))
  /\ guard' = unlock(lock(guard, "skim"), "skim")
  /\ UNCHANGED << pc, namespace, resource, cluster, bindings, todo, kubectl_lines,
                  kubectl_output, options, channel, picked, ctx, binding, lookups,
                  final_output, stdout, calls, clipboard, chunks, runs, failed, stream >>

\* the keys skim accepts with: the expect option, split at the commas
AcceptKeys == Range(Split(options[1].expect, ","))

\* Skim::run_with returns: nothing (abort), or the selected items and the key
SkimRun ==
  /\ pc = "skim"
  /\ \E out \in {None} \cup
         {Some([selected_items |-> [i \in 1..Len(q) |-> channel[q[i]]], accept_key |-> k]) :
            q \in DistinctPicks(Len(channel), MaxSel),
            k \in {None} \cup {Some(x) : x \in AcceptKeys \cup {UnknownKey}}} :
       LET got == IF out = None THEN [selected_items |-> <<>>, accept_key |-> None]
                  ELSE out[1]
       IN /\ picked' = Some(got)
          /\ pc' = IF got.accept_key = None THEN "print" ELSE "handle"
  /\ UNCHANGED << namespace, resource, cluster, bindings, todo, kubectl_lines,
                  kubectl_output, options, channel, ctx, binding, lookups, final_output,
                  stdout, calls, clipboard, shown, guard, chunks, runs, failed,
                  stream >>

\* SkimItem::output of a KubectlItem
output(item) == item.inner

\* the Some values of a sequence of options, in order (Iterator::filter_map)
RECURSIVE FilterMap(_)
FilterMap(opts) ==
  IF opts = <<>> THEN <<>>
  ELSE IF Head(opts) = None THEN FilterMap(Tail(opts))
  ELSE <<Head(opts)[1]>> \o FilterMap(Tail(opts))

\* slice::first, slice::get (index from 0)
first(v) == IF v = <<>> THEN None ELSE Some(v[1])
get(v, index) == IF index < Len(v) THEN Some(v[index + 1]) ELSE None

\* Opts::handle_output: the BindingContext of the selected items
binding_context(selected_items, ns, res) ==
  LET items == [i \in 1..Len(selected_items) |-> output(selected_items[i])]
      columns == [i \in 1..Len(items) |-> split_whitespace(items[i])]
      names == FilterMap([i \in 1..Len(columns) |-> first(columns[i])])
  IN [namespace |-> ns, resource |-> res, names |-> names, columns |-> columns]

S_does_not_work ==
  <<" ", "d", "o", "e", "s", " ", "n", "o", "t", " ", "w", "o", "r", "k", " ",
    "f", "o", "r", " ", "r", "e", "s", "o", "u", "r", "c", "e", " ",
    "t", "y", "p", "e", " ">>

\* the message of handle_output for a binding that does not run for the resource
mismatch(b, res) == description(b) \o S_does_not_work \o res

\* Opts::handle_output up to binding.run: context, lock, lookup, runs_for
HandleOutput ==
  /\ pc = "handle"
  /\ lockable(guard)
  /\ LET k == picked[1].accept_key[1]
         c == binding_context(picked[1].selected_items, namespace, resource)
         held == lock(guard, "main")
     IN /\ ctx' = Some(c)
        /\ lookups' = Append(lookups, k)
        /\ IF ~contains_key(bindings, k)
           THEN /\ binding' = None
                /\ final_output' = None
                /\ pc' = "print"
                /\ guard' = unlock(held, "main")
                /\ runs' = runs
           ELSE /\ binding' = Some(bindings[k])
                /\ IF ~runs_for(bindings[k], resource)
                   THEN /\ final_output' = Some(mismatch(bindings[k], resource))
                        /\ pc' = "print"
                        /\ guard' = unlock(held, "main")
                        /\ runs' = runs
                   ELSE /\ final_output' = final_output
                        /\ pc' = "run"
                        /\ guard' = held
                        /\ runs' = Append(runs, [binding |-> bindings[k], ctx |-> c])
  /\ UNCHANGED << namespace, resource, cluster, bindings, todo, kubectl_lines,
                  kubectl_output, options, channel, picked, stdout, calls, clipboard,
                  shown, chunks, failed, stream >>

\* Names::run joining the names last to first
names_run_reversed(c) ==
  Some(Join([i \in 1..Len(c.names) |-> c.names[Len(c.names) + 1 - i]], <<"\n">>))

\* Names::run
names_run(c) == Some(Join(c.names, <<"\n">>))

\* Column::run reading one column to the left
column_run_shifted(b, c) ==
  Some(Join(FilterMap([i \in 1..Len(c.columns) |-> get(c.columns[i], b.index - 1)]),
            <<"\n">>))

\* Column::run
column_run(b, c) ==
  Some(Join(FilterMap([i \in 1..Len(c.columns) |-> get(c.columns[i], b.index)]),
            <<"\n">>))

\* binding.run of Names and Column, which compute from the context alone
RunComputed ==
  /\ pc = "run"
  /\ binding[1].kind \in {"Names", "Column"}
  /\ final_output' = IF binding[1].kind = "Names" THEN names_run(ctx[1])
                     ELSE column_run(binding[1], ctx[1])
  /\ pc' = "print"
  /\ guard' = unlock(guard, "main")
  /\ UNCHANGED << namespace, resource, cluster, bindings, todo, kubectl_lines,
                  kubectl_output, options, channel, picked, ctx, binding, lookups,
                  stdout, calls, clipboard, shown, chunks, runs, failed,
                  stream >>

\* the kubectl command line a binding builds
command(b, c) ==
  LET base ==
        CASE b.kind = "Json" -> kubectl_base_cmd(c.namespace, "get", Some(c.resource))
          [] b.kind = "Yaml" -> kubectl_base_cmd(c.namespace, "get", Some(c.resource))
          [] b.kind = "Describe" ->
               kubectl_base_cmd(c.namespace, "describe", Some(c.resource))
          [] b.kind = "Edit" -> kubectl_base_cmd(c.namespace, "edit", Some(c.resource))
          [] b.kind = "Logs" -> kubectl_base_cmd(c.namespace, "logs", None)
          [] b.kind = "Cordon" -> kubectl_base_cmd(c.namespace, "cordon", None)
          [] b.kind = "Uncordon" -> kubectl_base_cmd(c.namespace, "uncordon", None)
      flags ==
        CASE b.kind = "Json" -> <<"--output", "json">>
          [] b.kind = "Yaml" -> <<"--output", "yaml">>
          [] b.kind = "Logs" -> <<"--follow", "--all-containers">>
          [] OTHER -> <<>>
  IN [base |-> base, flags |-> flags, names |-> c.names]

\* what capture().ok()?.stdout_str() may give
Captured == {None} \cup {Some(o) : o \in Outputs}

\* a captured command whose error gives an empty string: unwrap_or_default
RunCaptureDefault ==
  /\ pc = "run"
  /\ binding[1].kind \in {"Json", "Yaml", "Describe", "Cordon", "Uncordon"}
  /\ calls' = Append(calls, command(binding[1], ctx[1]))
  /\ \E r \in Captured :
       /\ final_output' = IF r = None THEN Some(<<>>) ELSE r
       /\ failed' = (r = None)
  /\ pc' = "print"
  /\ guard' = unlock(guard, "main")
  /\ UNCHANGED << namespace, resource, cluster, bindings, todo, kubectl_lines,
                  kubectl_output, options, channel, picked, ctx, binding, lookups,
                  stdout, clipboard, shown, chunks, runs, stream >>

\* binding.run of Json, Yaml, Describe, Cordon, Uncordon: the captured command
RunCapture ==
  /\ pc = "run"
  /\ binding[1].kind \in {"Json", "Yaml", "Describe", "Cordon", "Uncordon"}
  /\ calls' = Append(calls, command(binding[1], ctx[1]))
  /\ \E r \in Captured :
       /\ final_output' = r
       /\ failed' = (r = None)
  /\ pc' = "print"
  /\ guard' = unlock(guard, "main")
  /\ UNCHANGED << namespace, resource, cluster, bindings, todo, kubectl_lines,
                  kubectl_output, options, channel, picked, ctx, binding, lookups,
                  stdout, clipboard, shown, chunks, runs, stream >>

\* Edit::run: /dev/stdout opens or not, then the captured command
RunEdit ==
  /\ pc = "run"
  /\ binding[1].kind = "Edit"
  /\ \/ /\ final_output' = None
        /\ failed' = TRUE
        /\ calls' = calls
     \/ /\ calls' = Append(calls, command(binding[1], ctx[1]))
        /\ \E r \in Captured :
             /\ final_output' = r
             /\ failed' = (r = None)
  /\ pc' = "print"
  /\ guard' = unlock(guard, "main")
  /\ UNCHANGED << namespace, resource, cluster, bindings, todo, kubectl_lines,
                  kubectl_output, options, channel, picked, ctx, binding, lookups,
                  stdout, clipboard, shown, chunks, runs, stream >>

\* Copy::run: the clipboard is there or not, set_contents works or not
RunCopy ==
  /\ pc = "run"
  /\ binding[1].kind = "Copy"
  /\ \/ clipboard' = clipboard /\ failed' = TRUE
     \/ clipboard' = names_run(ctx[1]) /\ failed' = FALSE
  /\ final_output' = None
  /\ pc' = "print"
  /\ guard' = unlock(guard, "main")
  /\ UNCHANGED << namespace, resource, cluster, bindings, todo, kubectl_lines,
                  kubectl_output, options, channel, picked, ctx, binding, lookups,
                  stdout, calls, shown, chunks, runs, stream >>

S_cannot_get_logs ==
  <<"C", "a", "n", "n", "o", "t", " ", "g", "e", "t", " ", "l", "o", "g", "s", " ",
    "o", "f", " ", "m", "o", "r", "e", " ", "t", "h", "a", "n", " ", "o", "n", "e", " ",
    "p", "o", "d", " ", "a", "t", " ", "a", " ", "t", "i", "m", "e">>

\* Logs::run without the cardinality check
RunLogsUnchecked ==
  /\ pc = "run"
  /\ binding[1].kind = "Logs"
  /\ calls' = Append(calls, command(binding[1], ctx[1]))
  /\ final_output' = None
  /\ \/ pc' = "print" /\ guard' = unlock(guard, "main") /\ failed' = TRUE /\ stream' = stream
     \/ pc' = "logs" /\ guard' = guard /\ failed' = FALSE /\ stream' = "open"
  /\ UNCHANGED << namespace, resource, cluster, bindings, todo, kubectl_lines,
                  kubectl_output, options, channel, picked, ctx, binding, lookups,
                  stdout, clipboard, shown, chunks, runs >>

\* Logs::run up to the read loop: the cardinality check, then communicate,
\* which gives an error or the open stream
RunLogs ==
  /\ pc = "run"
  /\ binding[1].kind = "Logs"
  /\ IF Len(ctx[1].names) > 1
     THEN /\ final_output' = Some(S_cannot_get_logs)
          /\ pc' = "print"
          /\ guard' = unlock(guard, "main")
          /\ calls' = calls
          /\ failed' = failed
          /\ stream' = stream
     ELSE /\ calls' = Append(calls, command(binding[1], ctx[1]))
          /\ final_output' = None
          /\ \/ pc' = "print" /\ guard' = unlock(guard, "main") /\ failed' = TRUE
                  /\ stream' = stream
             \/ pc' = "logs" /\ guard' = guard /\ failed' = FALSE /\ stream' = "open"
  /\ UNCHANGED << namespace, resource, cluster, bindings, todo, kubectl_lines,
                  kubectl_output, options, channel, picked, ctx, binding, lookups,
                  stdout, clipboard, shown, chunks, runs >>

\* the i-th chunk the logs stream delivers
LogChunk(i) == <<"l", "o", "g">> \o to_string(i) \o <<"\n">>

\* the read loop as an if let: it is left after the first chunk
LogsReadOnce ==
  /\ pc = "logs"
  /\ chunks < MaxChunks
  /\ chunks' = chunks + 1
  /\ stdout' = stdout \o LogChunk(chunks')
  /\ final_output' = None
  /\ pc' = "print"
  /\ guard' = unlock(guard, "main")
  /\ UNCHANGED << namespace, resource, cluster, bindings, todo, kubectl_lines,
                  kubectl_output, options, channel, picked, ctx, binding, lookups,
                  calls, clipboard, shown, runs, failed, stream >>

\* the read loop of Logs::run: read_string gave Ok((Some(stdout), None)), the
\* chunk is printed and the loop goes on
LogsRead ==
  /\ pc = "logs"
  /\ chunks < MaxChunks
  /\ chunks' = chunks + 1
  /\ stdout' = stdout \o LogChunk(chunks')
  /\ UNCHANGED << pc, namespace, resource, cluster, bindings, todo, kubectl_lines,
                  kubectl_output, options, channel, picked, ctx, binding, lookups,
                  final_output, calls, clipboard, shown, guard, runs, failed, stream >>

\* the read loop of Logs::run ends: read_string gave anything else, the stream
\* has closed
LogsEnd ==
  /\ pc = "logs"
  /\ stream' = "closed"
  /\ final_output' = None
  /\ pc' = "print"
  /\ guard' = unlock(guard, "main")
  /\ UNCHANGED << namespace, resource, cluster, bindings, todo, kubectl_lines,
                  kubectl_output, options, channel, picked, ctx, binding, lookups,
                  stdout, calls, clipboard, shown, chunks, runs, failed >>

\* main printing the Debug form of the final output
PrintOutputQuoted ==
  /\ pc = "print"
  /\ stdout' = IF final_output = None THEN stdout
               ELSE stdout \o <<"\"">> \o final_output[1] \o <<"\"">>
  /\ pc' = "exit"
  /\ UNCHANGED << namespace, resource, cluster, bindings, todo, kubectl_lines,
                  kubectl_output, options, channel, picked, ctx, binding, lookups,
                  final_output, calls, clipboard, shown, guard, chunks, runs, failed,
                  stream >>

\* main printing a line whatever run returned
PrintOutputLine ==
  /\ pc = "print"
  /\ stdout' = (IF final_output = None THEN stdout ELSE stdout \o final_output[1])
                 \o <<"\n">>
  /\ pc' = "exit"
  /\ UNCHANGED << namespace, resource, cluster, bindings, todo, kubectl_lines,
                  kubectl_output, options, channel, picked, ctx, binding, lookups,
                  final_output, calls, clipboard, shown, guard, chunks, runs, failed,
                  stream >>

\* main: print the final output if there is one, then return
PrintOutput ==
  /\ pc = "print"
  /\ stdout' = IF final_output = None THEN stdout ELSE stdout \o final_output[1]
  /\ pc' = "exit"
  /\ UNCHANGED << namespace, resource, cluster, bindings, todo, kubectl_lines,
                  kubectl_output, options, channel, picked, ctx, binding, lookups,
                  final_output, calls, clipboard, shown, guard, chunks, runs, failed,
                  stream >>

Next ==
  \/ SetupBinding
  \/ KubectlGet
  \/ AddColumn
  \/ StartSkim
  \/ Preview
  \/ SkimRun
  \/ HandleOutput
  \/ RunComputed
  \/ RunCapture
  \/ RunEdit
  \/ RunCopy
  \/ RunLogs
  \/ LogsRead
  \/ LogsEnd
  \/ PrintOutput

Spec == Init /\ [][Next]_vars

\* add_binding over any registration list
RegistrySpec == InitRegistry /\ [][Next]_vars

\* -------------------------------------------------------------- properties
\* a registration loop is about to add a binding whose key is taken
DuplicateNext ==
  /\ pc \in {"setup", "columns"}
  /\ todo # <<>>
  /\ key(Head(todo)) \in DOMAIN bindings

\* no phase after the registration has left a trace
NothingDispatched ==
  /\ picked = None
  /\ ctx = None
  /\ binding = None
  /\ lookups = <<>>
  /\ final_output = None
  /\ stdout = <<>>
  /\ calls = <<>>

\* C1: the triggers of the bindings in the registry are pairwise distinct (each
\* is held under its own trigger), and a registration step on a binding whose
\* trigger is taken panics: the registry stays as it is, the panic is final,
\* and nothing was or will be dispatched.
C1_UniqueTriggers ==
  /\ [](\A k1, k2 \in DOMAIN bindings :
          key(bindings[k1]) = key(bindings[k2]) => k1 = k2)
  /\ [](pc = "panicked" => NothingDispatched)
  /\ [][DuplicateNext => (pc' = "panicked" /\ bindings' = bindings)]_vars
  /\ [][pc = "panicked" => pc' = "panicked"]_vars
  /\ [][pc' = "panicked" /\ pc # "panicked" => DuplicateNext]_vars

C1_Witness ==
  /\ pc = "panicked"
  /\ todo # <<>>
  /\ key(Head(todo)) \in DOMAIN bindings
  /\ bindings[key(Head(todo))] # Head(todo)

\* the positions where a whitespace-delimited token of the line starts
TokenStarts(line) ==
  {i \in 1..Len(line) :
     ~IsWhitespace(line[i]) /\ (i = 1 \/ IsWhitespace(line[i - 1]))}

TokenCount(line) == Cardinality(TokenStarts(line))

\* the k-th whitespace-delimited token of the line
TokenAt(line, k) ==
  LET starts == TokenStarts(line)
      s == CHOOSE i \in starts : Cardinality({j \in starts : j < i}) = k - 1
      e == CHOOSE j \in s..Len(line) :
             /\ \A x \in s..j : ~IsWhitespace(line[x])
             /\ j = Len(line) \/ IsWhitespace(line[j + 1])
  IN SubSeq(line, s, e)

\* the rows the picker returned, as text
SelectedRows ==
  [i \in 1..Len(picked[1].selected_items) |-> picked[1].selected_items[i].inner]

Finished == pc \in {"print", "exit"}

\* C2: the context of N selected rows has N names and N column vectors, and the
\* first column of every row that has a token is the name at the same place.
C2_ContextAligned ==
  ctx # None =>
    LET c == ctx[1]
        N == Len(SelectedRows)
    IN /\ Len(c.columns) = N
       /\ Len(c.names) = N
       /\ \A i \in 1..N : TokenCount(SelectedRows[i]) >= 1 => c.columns[i][1] = c.names[i]

S_RunningPending == S_Running \o <<"\n">> \o S_Pending

\* C3: the action of a column returns, in selection order and joined by line
\* feeds, the token each selected row has at that column, rows without one
\* skipped; the action under f<i> is the one of the header's column i + 1, so
\* for header NAME STATUS AGE and rows a, b the second column gives
\* "Running\nPending".
C3_ColumnValues ==
  /\ (Finished /\ binding # None /\ binding[1].kind = "Column") =>
       LET position == binding[1].index + 1
           have == SelectSeq(SelectedRows, LAMBDA row : TokenCount(row) >= position)
           values == [i \in 1..Len(have) |-> TokenAt(have[i], position)]
       IN /\ final_output = Some(Join(values, <<"\n">>))
          /\ picked[1].accept_key = Some(<<"f">> \o to_string(position - 1))
          /\ binding[1].name = TokenAt(kubectl_output[1].header, position)
  /\ (/\ Finished
      /\ picked # None
      /\ picked[1].accept_key = Some(<<"f", "1">>)
      /\ kubectl_output[1].header = H_NameStatusAge
      /\ SelectedRows = <<R_a, R_b>>)
       => final_output = Some(S_RunningPending)

C3_Witness ==
  /\ pc = "exit"
  /\ picked # None
  /\ picked[1].accept_key = Some(<<"f", "1">>)
  /\ kubectl_output[1].header = H_NameStatusAge
  /\ SelectedRows = <<R_a, R_b>>
  /\ stdout = S_RunningPending

\* a row without the column was selected and skipped
C3_WitnessSkipped ==
  /\ pc = "exit"
  /\ binding # None
  /\ binding[1].kind = "Column"
  /\ binding[1].index = 1
  /\ SelectedRows = <<R_c, R_b>>
  /\ stdout = S_Pending

\* C4: the Names action, under the empty trigger, returns the first token of
\* each selected row, joined by line feeds in the order the picker returned the
\* rows; the picker was given the rows of the listing in the listing's order,
\* and the context, when handle_output has built it, holds one column vector
\* per selected row, in that order.
C4_NamesInOrder ==
  /\ pc = "skim" =>
       /\ cluster[1] =
            Unlines(<<kubectl_output[1].header>> \o
                    [i \in 1..Len(channel) |-> channel[i].inner])
       /\ channel = kubectl_output[1].items
  /\ (ctx # None /\ pc \in {"run", "print"}) =>
       /\ Len(ctx[1].columns) = Len(SelectedRows)
       /\ \A i \in 1..Len(SelectedRows) :
            /\ Len(ctx[1].columns[i]) = TokenCount(SelectedRows[i])
            /\ \A k \in 1..TokenCount(SelectedRows[i]) :
                 ctx[1].columns[i][k] = TokenAt(SelectedRows[i], k)
  /\ (Finished /\ picked # None /\ picked[1].accept_key = Some(<<>>)) =>
       LET have == SelectSeq(SelectedRows, LAMBDA row : TokenCount(row) >= 1)
       IN /\ binding = Some(Names)
          /\ final_output = Some(Join([i \in 1..Len(have) |-> TokenAt(have[i], 1)],
                                      <<"\n">>))
  /\ (/\ Finished
      /\ picked # None
      /\ picked[1].accept_key = Some(<<>>)
      /\ SelectedRows = <<R_b, R_a>>) => final_output = Some(<<"b", "\n", "a">>)

C4_Witness ==
  /\ pc = "exit"
  /\ picked # None
  /\ picked[1].accept_key = Some(<<>>)
  /\ SelectedRows = <<R_b, R_a>>
  /\ stdout = <<"b", "\n", "a">>

PodNames == {S_pods, S_pod, S_po}
NodeNames == {S_nodes, S_node, S_no}

\* the binding is for other resource types than this one
Gated(b, res) ==
  \/ b.kind = "Logs" /\ res \notin PodNames
  \/ b.kind \in {"Cordon", "Uncordon"} /\ res \notin NodeNames

S_CordonPod ==
  <<"C", "o", "r", "d", "o", "n", " ", "d", "o", "e", "s", " ", "n", "o", "t", " ",
    "w", "o", "r", "k", " ", "f", "o", "r", " ", "r", "e", "s", "o", "u", "r", "c", "e",
    " ", "t", "y", "p", "e", " ", "p", "o", "d">>

\* what running a binding leaves behind
NothingRun == calls = <<>> /\ clipboard = None /\ chunks = 0

\* C5: a trigger that resolves to a binding which does not run for the resource
\* type gives exactly "<description> does not work for resource type <type>"
\* ("Cordon does not work for resource type pod"), and the binding's run is
\* never entered: no command, no clipboard write, no stream.
C5_MismatchMessage ==
  /\ (binding # None /\ Gated(binding[1], resource)) =>
       /\ Finished
       /\ final_output = Some(description(binding[1]) \o S_does_not_work \o resource)
       /\ NothingRun
       /\ pc = "exit" => stdout = final_output[1]
  /\ (binding = Some(Cordon) /\ resource = S_pod) => final_output = Some(S_CordonPod)
  /\ pc \in {"run", "logs"} => ~Gated(binding[1], resource)

C5_Witness ==
  /\ pc = "exit"
  /\ binding = Some(Cordon)
  /\ resource = S_pod
  /\ Len(SelectedRows) > 0
  /\ stdout = S_CordonPod

\* C6: Logs with two or more names returns the cardinality message and starts
\* no command; a logs command is only ever started with at most one name.
C6_LogsCardinality ==
  /\ (binding = Some(Logs) /\ resource \in PodNames /\ Len(ctx[1].names) >= 2
        /\ pc # "run") =>
       /\ Finished
       /\ final_output = Some(S_cannot_get_logs)
       /\ NothingRun
       /\ pc = "exit" => stdout = S_cannot_get_logs
  /\ \A i \in 1..Len(calls) : calls[i].base.verb = "logs" => Len(calls[i].names) <= 1
  /\ pc = "logs" => Len(ctx[1].names) <= 1

C6_Witness ==
  /\ pc = "exit"
  /\ binding = Some(Logs)
  /\ Len(ctx[1].names) = 2
  /\ calls = <<>>
  /\ stdout = S_cannot_get_logs

\* the logs command was started for one name
C6_WitnessStarted ==
  /\ pc = "logs"
  /\ Len(ctx[1].names) = 1
  /\ Len(calls) = 1
  /\ calls[1].base.verb = "logs"

\* resource names: the ones in use, every alias of pods and nodes, the empty one
ResourceNames == Resources \cup PodNames \cup NodeNames \cup {<<>>}

\* C7: runs_for is true for every resource type when accepts() is empty and
\* otherwise exactly for the members of accepts(); Logs lists the pod names,
\* Cordon and Uncordon the node names, every other binding nothing; dispatch
\* enters run only where runs_for holds. (Stated for every binding of every
\* registry content: the registry changes only up to the picking.)
C7_RunsFor ==
  /\ pc \in {"setup", "columns", "skim"} =>
       \A k \in DOMAIN bindings, r \in ResourceNames :
         LET b == bindings[k]
         IN /\ runs_for(b, r) <=> (accepts(b) = <<>> \/ r \in Range(accepts(b)))
            /\ runs_for(b, r) <=> ~Gated(b, r)
  /\ pc \in {"run", "logs"} =>
       (accepts(binding[1]) = <<>> \/ resource \in Range(accepts(binding[1])))

C7_Witness ==
  /\ pc = "skim"
  /\ resource = S_pod
  /\ \E k \in DOMAIN bindings : bindings[k] = Logs /\ runs_for(bindings[k], resource)
  /\ \E k \in DOMAIN bindings : accepts(bindings[k]) = <<>>
  /\ \E k \in DOMAIN bindings : ~runs_for(bindings[k], resource)

\* the strings of a set in ascending order: the i-th has i - 1 smaller ones
Ascending(S) ==
  [i \in 1..Cardinality(S) |->
     CHOOSE x \in S : Cardinality({y \in S : y # x /\ StrLeq(y, x)}) = i - 1]

\* a preview line: red description, tab, yellow key, reset
PreviewLine(desc, keyname) ==
  <<"ESC", "[", "3", "1", "m">> \o desc \o <<"\t", "ESC", "[", "3", "3", "m">>
    \o keyname \o <<"ESC", "[", "0", "m">>

S_TogglePreview ==
  <<"T", "o", "g", "g", "l", "e", " ", "P", "r", "e", "v", "i", "e", "w">>

ToggleLine == PreviewLine(S_TogglePreview, S_ctrl \o <<"p">>)

\* the preview of a pod when the registry holds the nine static bindings and
\* the columns of NAME STATUS AGE
PodPreviewLines ==
  << PreviewLine(<<"1", ":", "S", "T", "A", "T", "U", "S">>, <<"f", "1">>),
     PreviewLine(<<"2", ":", "A", "G", "E">>, <<"f", "2">>),
     PreviewLine(S_Copy, S_ctrl \o S_space),
     PreviewLine(S_Describe, S_ctrl \o <<"d">>),
     PreviewLine(S_Edit, S_ctrl \o <<"e">>),
     PreviewLine(S_Json, S_ctrl \o <<"j">>),
     PreviewLine(S_Logs, S_ctrl \o <<"l">>),
     PreviewLine(S_Names, S_enter),
     ToggleLine,
     PreviewLine(S_Yaml, S_ctrl \o <<"y">>) >>

\* the tab-aligned preview when only Names is registered
NamesOnlyPreview ==
  <<"ESC", "[", "3", "1", "m", "N", "a", "m", "e", "s",
    " ", " ", " ", " ", " ", " ", " ", " ", " ", " ", " ",
    "ESC", "[", "3", "3", "m", "e", "n", "t", "e", "r", "ESC", "[", "0", "m", "\n",
    "ESC", "[", "3", "1", "m">> \o S_TogglePreview \o
  <<" ", " ", "ESC", "[", "3", "3", "m", "c", "t", "r", "l", "-", "p", "ESC", "[", "0", "m">>

\* C8: the preview of a row is made of exactly the preview lines of the
\* registered bindings that run for the resource type and the toggle-preview
\* line, in ascending byte order (then tab-aligned); the toggle-preview line is
\* there whatever the registry holds.
C8_PreviewSorted ==
  (pc = "skim" /\ shown # None) =>
    LET applicable == {k \in DOMAIN bindings : ~Gated(bindings[k], resource)}
        expected == {preview(bindings[k]) : k \in applicable} \cup {ToggleLine}
        sorted == Ascending(expected)
    IN /\ Cardinality(expected) = Cardinality(applicable) + 1
       /\ \A i, j \in 1..Len(sorted) : i <= j => StrLeq(sorted[i], sorted[j])
       /\ shown[1] = TabWrite(Join(sorted, <<"\n">>))
       /\ \E i \in 1..Len(Split(shown[1], "\n")) :
            SubSeq(Split(shown[1], "\n")[i], 1, 19)
              = <<"ESC", "[", "3", "1", "m">> \o S_TogglePreview
       /\ Len(Split(shown[1], "\n")) = Cardinality(applicable) + 1
       /\ (DOMAIN bindings = {<<>>}) => shown[1] = NamesOnlyPreview
       /\ (/\ resource = S_pod
           /\ Range(IterOrder({bindings[k] : k \in DOMAIN bindings}))
                = Range(StaticBindings) \cup Range(ColumnBindings(H_NameStatusAge)))
            => shown[1] = TabWrite(Join(PodPreviewLines, <<"\n">>))

\* no registered binding runs for the resource: the preview is the toggle line
C8_Witness ==
  /\ pc = "skim"
  /\ bindings # <<>>
  /\ \A k \in DOMAIN bindings : Gated(bindings[k], resource)
  /\ shown # None
  /\ Len(Split(shown[1], "\n")) = 1

\* the standard registry on a pod listing with three columns
C8_WitnessPod ==
  /\ pc = "skim"
  /\ resource = S_pod
  /\ Cardinality(DOMAIN bindings) = 11
  /\ shown = Some(TabWrite(Join(PodPreviewLines, <<"\n">>)))

\* the picker gave no key: it was aborted, or returned nothing at all
Aborted == picked # None /\ picked[1].accept_key = None

\* C9: when the picker is aborted no binding is looked up or run, nothing is
\* printed, and main returns normally: from the abort the only step left is
\* the return from main, which prints nothing.
C9_AbortQuiet ==
  Aborted =>
    /\ ctx = None
    /\ binding = None
    /\ lookups = <<>>
    /\ NothingRun
    /\ final_output = None
    /\ stdout = <<>>
    /\ guard = "free"
    /\ pc = "exit" \/ (pc = "print" /\ ENABLED PrintOutput)

C9_Witness ==
  /\ Aborted
  /\ Len(picked[1].selected_items) > 0
  /\ pc = "exit"
  /\ stdout = <<>>

\* decimal numerals of the function keys
Numerals ==
  << <<"1">>, <<"2">>, <<"3">>, <<"4">>, <<"5">>, <<"6">>, <<"7">>, <<"8">>, <<"9">>,
     <<"1", "0">>, <<"1", "1">>, <<"1", "2">>, <<"1", "3">>, <<"1", "4">>,
     <<"1", "5">>, <<"1", "6">>, <<"1", "7">>, <<"1", "8">>, <<"1", "9">> >>

ColumnKeys == {k \in DOMAIN bindings : bindings[k].kind = "Column"}

HeaderTokens == TokenCount(kubectl_output[1].header)

\* the registry holds the column bindings 1..count of the header, the column
\* after the first under f1 and so on, each described by "<i>:<header token>",
\* and besides them the nine static bindings
ColumnsRegistered(count) ==
  /\ Cardinality(ColumnKeys) = count
  /\ count <= 19
  /\ \A i \in 1..count :
       LET k == <<"f">> \o Numerals[i]
       IN /\ k \in ColumnKeys
          /\ key(bindings[k]) = k
          /\ bindings[k].index = i
          /\ bindings[k].name = TokenAt(kubectl_output[1].header, i + 1)
          /\ description(bindings[k])
               = Numerals[i] \o <<":">> \o TokenAt(kubectl_output[1].header, i + 1)
  /\ {bindings[k] : k \in DOMAIN bindings \ ColumnKeys} = Range(StaticBindings)

\* C10 as stated: min(n - 1, 19) column bindings for a header of n tokens
C10_ColumnCountAsStated ==
  kubectl_output # None =>
    Cardinality(ColumnKeys) = Min(HeaderTokens - 1, 19)

\* C10: once the header of n tokens is parsed and its columns are added, that
\* is when the picking starts, the registry holds exactly min(n - 1, 19) column
\* bindings when n >= 1 and none when n = 0: one for each header column after
\* the first, under f1, f2, ..., described by the header token of its column.
\* (The registry stays as it is from there on: C11.)
C10_ColumnCount ==
  LET count == IF HeaderTokens = 0 THEN 0 ELSE Min(HeaderTokens - 1, 19)
  IN pc = "skim" => (Cardinality(ColumnKeys) = count /\ ColumnsRegistered(count))

\* a header with more than twenty columns: nineteen bindings
C10_Witness ==
  /\ pc = "skim"
  /\ HeaderTokens > 20
  /\ Cardinality(ColumnKeys) = 19

\* a header with three columns: two bindings
C10_WitnessThree ==
  /\ pc = "skim"
  /\ kubectl_output[1].header = H_NameStatusAge
  /\ ColumnKeys = {<<"f", "1">>, <<"f", "2">>}

\* the registration is over: the picker has been set up or the run has ended
Registered == pc \notin {"setup", "columns", "panicked"}

\* C11: the registry is written only by the two registration loops, while no
\* row has been handed to the picker; when the picker gets its rows both loops
\* are through, the registry holds the static bindings and one binding for each
\* column the header gives, and from then on to the end no step changes the
\* registry, a preview least of all.
C11_WritesBeforePicking ==
  /\ [](Registered => todo = <<>>)
  /\ [](pc = "skim" =>
          Cardinality(DOMAIN bindings)
            = Len(StaticBindings) + Len(ColumnBindings(kubectl_output[1].header)))
  /\ [][bindings' # bindings =>
          /\ pc \in {"setup", "columns"}
          /\ todo # <<>>
          /\ options = None
          /\ channel = <<>>
          /\ shown = None
          /\ picked = None]_vars
  /\ [][Registered => bindings' = bindings]_vars
  /\ [][shown' # shown => (pc = "skim" /\ bindings' = bindings)]_vars

C11_Witness ==
  /\ pc = "exit"
  /\ shown # None
  /\ Len(runs) = 1
  /\ Cardinality(DOMAIN bindings) = Len(StaticBindings) + 2

\* the listing call gave an error, or an output without any line, which is
\* the empty output (C12 checks that against lines, at the start of each run)
ListingFailed == cluster = None \/ cluster[1] = <<>>

\* C12: when the listing call gives an error or an output without lines, the
\* run ends without output: the registry keeps to the static bindings, the
\* picker gets neither options nor rows and returns nothing, no binding is
\* looked up or run, and nothing is printed.
C12_ListingFailureQuiet ==
  /\ (pc = "setup" /\ bindings = <<>> /\ cluster # None) =>
       (lines(cluster[1]) = <<>> <=> cluster[1] = <<>>)
  /\ ListingFailed =>
       /\ pc \in {"setup", "print", "exit"}
       /\ todo = <<>> => {bindings[k] : k \in DOMAIN bindings} = Range(StaticBindings)
       /\ \A k \in DOMAIN bindings : bindings[k].kind # "Column"
       /\ kubectl_output = None
       /\ options = None
       /\ channel = <<>>
       /\ shown = None
       /\ picked = None
       /\ ctx = None
       /\ binding = None
       /\ lookups = <<>>
       /\ runs = <<>>
       /\ NothingRun
       /\ final_output = None
       /\ stdout = <<>>

\* kubectl could not be run
C12_Witness ==
  /\ pc = "exit"
  /\ cluster = None
  /\ Cardinality(DOMAIN bindings) = Len(StaticBindings)
  /\ stdout = <<>>

\* kubectl ran and wrote nothing
C12_WitnessEmpty ==
  /\ pc = "exit"
  /\ cluster = Some(<<>>)
  /\ Cardinality(DOMAIN bindings) = Len(StaticBindings)
  /\ stdout = <<>>

\* what the first n chunks of the logs stream hold
RECURSIVE LogText(_)
LogText(n) == IF n = 0 THEN <<>> ELSE LogText(n - 1) \o LogChunk(n)

\* the picker gave a trigger that is registered and whose binding is for the
\* resource type, and handle_output has dealt with it
Dispatched ==
  /\ lookups # <<>>
  /\ lookups[1] \in DOMAIN bindings
  /\ ~Gated(bindings[lookups[1]], resource)

\* what the run of a binding may return for a context
Returns(b, c) ==
  CASE b.kind = "Names" -> {Some(Join(c.names, <<"\n">>))}
    [] b.kind = "Column" -> {column_run(b, c)}
    [] b.kind \in {"Json", "Yaml", "Describe", "Edit", "Cordon", "Uncordon"} -> Captured
    [] b.kind = "Copy" -> {None}
    [] b.kind = "Logs" -> {None, Some(S_cannot_get_logs)}

C13_WitnessNothing ==
  /\ pc = "exit"
  /\ Len(runs) = 1
  /\ runs[1].binding = Describe
  /\ final_output = None
  /\ stdout = <<>>

\* C14: when the picking starts the accept keys the picker reads from its
\* options are exactly the triggers of the registry, none twice: the one of
\* every static binding, the empty default trigger among them, and f1, f2, ...
\* for every column binding the header gave; no other key is among them.
C14_AcceptKeys ==
  pc = "skim" =>
    /\ AcceptKeys = DOMAIN bindings
    /\ AcceptKeys = {key(bindings[k]) : k \in DOMAIN bindings}
    /\ Len(Split(options[1].expect, ",")) = Cardinality(DOMAIN bindings)
    /\ <<>> \in AcceptKeys
    /\ \A i \in 1..Len(StaticBindings) : key(StaticBindings[i]) \in AcceptKeys
    /\ \A i \in 1..Len(ColumnBindings(kubectl_output[1].header)) :
         <<"f">> \o Numerals[i] \in AcceptKeys
    /\ UnknownKey \notin AcceptKeys

\* nineteen column triggers and the nine static ones
C14_Witness ==
  /\ pc = "skim"
  /\ Cardinality(AcceptKeys) = MaxFunctionKeys + Len(StaticBindings)
  /\ <<>> \in AcceptKeys
  /\ <<"f", "1", "9">> \in AcceptKeys
  /\ AcceptKeys = DOMAIN bindings

\* handle_output looked up a trigger the registry does not hold
UnknownTrigger == lookups # <<>> /\ lookups[1] \notin DOMAIN bindings

\* C15: a trigger from the picker that the registry does not hold ends the run
\* with no output: no binding is found or run, nothing is printed, the only
\* step left is the return from main; and such a trigger is never one of the
\* accept keys the picker was given, so a picker that answers with one of
\* those never leads here.
C15_UnknownTriggerQuiet ==
  /\ lookups # <<>> => picked[1].accept_key = Some(lookups[1])
  /\ UnknownTrigger =>
       /\ Finished
       /\ binding = None
       /\ runs = <<>>
       /\ NothingRun
       /\ final_output = None
       /\ stdout = <<>>
       /\ guard = "free"
       /\ pc = "exit" \/ ENABLED PrintOutput
       /\ lookups[1] \notin AcceptKeys

C15_Witness ==
  /\ pc = "exit"
  /\ UnknownTrigger
  /\ picked[1].accept_key = Some(UnknownKey)
  /\ Len(picked[1].selected_items) = 2
  /\ stdout = <<>>

\* the final output is a message about a refusal, not the result of a command
\* or of the selection: the binding is not for the resource type, or Logs was
\* asked for more than one pod
MismatchPrinted ==
  /\ binding # None
  /\ Gated(binding[1], resource)
  /\ runs = <<>>
  /\ final_output = Some(description(binding[1]) \o S_does_not_work \o resource)

CardinalityPrinted ==
  /\ binding = Some(Logs)
  /\ Len(runs) = 1
  /\ Len(ctx[1].names) > 1
  /\ final_output = Some(S_cannot_get_logs)

\* the final output is what the binding made of the selection or what its
\* command wrote, and no call of it gave an error
ResultPrinted ==
  /\ Len(runs) = 1
  /\ ~failed
  /\ \/ binding[1].kind \in {"Names", "Column"}
     \/ /\ binding[1].kind \in {"Json", "Yaml", "Describe", "Edit", "Cordon", "Uncordon"}
        /\ Len(calls) = 1
        /\ final_output \in {Some(o) : o \in Outputs}

C16_WitnessClipboard ==
  /\ pc = "exit"
  /\ failed
  /\ binding = Some(Copy)
  /\ clipboard = None
  /\ stdout = <<>>

\* the logs command could not be started
C16_WitnessLogs ==
  /\ pc = "exit"
  /\ failed
  /\ binding = Some(Logs)
  /\ stream = "none"
  /\ stdout = <<>>

C17_WitnessNoName ==
  /\ pc = "logs"
  /\ ctx[1].names = <<>>
  /\ chunks = 1
  /\ stdout = <<"l", "o", "g", "1", "\n">>

\* the trigger of Logs was looked up for a resource type that is not the pods
LogsOnOther ==
  /\ lookups # <<>>
  /\ lookups[1] = <<"c", "t", "r", "l", "-", "l">>
  /\ resource \notin PodNames

\* C18: the trigger of Logs on a resource type other than the pods gives the
\* mismatch message whatever the number of selected rows, none, one or
\* several: Logs::run is never entered, so the message about several pods is
\* never the output and no logs command is started; that message only ever
\* comes out of a run of Logs on pods.
C18_GateBeforeCardinality ==
  /\ LogsOnOther =>
       /\ Finished
       /\ binding = Some(Logs)
       /\ final_output = Some(S_Logs \o S_does_not_work \o resource)
       /\ final_output # Some(S_cannot_get_logs)
       /\ runs = <<>>
       /\ calls = <<>>
       /\ stream = "none"
       /\ chunks = 0
       /\ pc = "exit" => stdout = S_Logs \o S_does_not_work \o resource
  /\ final_output = Some(S_cannot_get_logs) =>
       (resource \in PodNames /\ Len(runs) = 1 /\ runs[1].binding = Logs)

\* two rows of a node listing
C18_Witness ==
  /\ pc = "exit"
  /\ LogsOnOther
  /\ resource = S_node
  /\ Len(ctx[1].names) = 2
  /\ stdout = S_Logs \o S_does_not_work \o S_node

\* no row
C18_WitnessNone ==
  /\ pc = "exit"
  /\ LogsOnOther
  /\ SelectedRows = <<>>
  /\ stdout = S_Logs \o S_does_not_work \o resource

\* one row
C18_WitnessOne ==
  /\ pc = "exit"
  /\ LogsOnOther
  /\ Len(SelectedRows) = 1
  /\ Len(ctx[1].names) = 1
  /\ stdout = S_Logs \o S_does_not_work \o resource

StaticKeys == {key(StaticBindings[i]) : i \in 1..Len(StaticBindings)}

\* C19: after the static registration the loop over the header's columns
\* never meets a taken trigger, whatever the header, a repeated column name
\* or more columns than function keys included: the triggers still to add
\* are f1, f2, ... up to f19 at most, distinct from each other, from the
\* static triggers and from what the registry holds; the key of a column
\* depends on its index alone. So no run panics, and a listing with a header
\* line gets to the picker.
C19_NoDuplicateColumns ==
  /\ pc # "panicked"
  /\ ~DuplicateNext
  /\ pc = "columns" =>
       /\ Len(todo) <= MaxFunctionKeys
       /\ \A i \in 1..Len(todo) :
            /\ todo[i].kind = "Column"
            /\ key(todo[i]) \notin StaticKeys
            /\ key(todo[i]) \notin DOMAIN bindings
            /\ \E n \in 1..MaxFunctionKeys : key(todo[i]) = <<"f">> \o Numerals[n]
            /\ \A j \in 1..Len(todo) : key(todo[i]) = key(todo[j]) => i = j
       /\ StaticKeys \subseteq DOMAIN bindings
       /\ lockable(guard)
       /\ todo # <<>> => ~add_binding(bindings, Head(todo)).panic
  /\ (pc = "setup" /\ todo = <<>>) =>
       \A i, j \in 1..MaxFunctionKeys :
         /\ key(Column(<<"I", "P">>, i)) = key(Column(<<"I", "P">>, j)) => i = j
         /\ key(Column(<<"I", "P">>, i)) = key(Column(<<"A">>, i))
         /\ key(Column(<<"I", "P">>, i)) \notin StaticKeys
  /\ (Registered /\ kubectl_lines # <<>>) => options # None

\* a header with the column name IP twice
C19_Witness ==
  /\ pc = "skim"
  /\ kubectl_output[1].header = H_Repeated
  /\ ColumnKeys = {<<"f", "1">>, <<"f", "2">>}
  /\ bindings[<<"f", "1">>].name = bindings[<<"f", "2">>].name

\* a header with more columns than function keys
C19_WitnessWide ==
  /\ pc = "skim"
  /\ HeaderTokens > MaxFunctionKeys + 1
  /\ Cardinality(DOMAIN bindings) = MaxFunctionKeys + Len(StaticBindings)

\* C20: the guard of the registry is free whenever somebody is about to take
\* it, so nobody waits for it for ever: every add_binding of the two loops
\* can run to its end (it takes and drops the guard for the check, then
\* again for the insert, never one inside the other), the expect keys and
\* every preview take it and drop it, and handle_output takes it only once
\* the picker has returned. It is held between steps only by handle_output
\* across the one run of a binding, where no registration is left to do and
\* nothing else takes it.
C20_GuardNeverBlocks ==
  /\ guard \in {"free", "main"}
  /\ (guard = "main") <=> (pc \in {"run", "logs"})
  /\ guard = "main" =>
       /\ picked # None
       /\ picked[1].accept_key # None
       /\ Len(runs) = 1
       /\ todo = <<>>
  /\ (pc = "setup" /\ todo # <<>>) => ENABLED SetupBinding
  /\ (pc = "columns" /\ todo # <<>>) => ENABLED AddColumn
  /\ pc \in {"setup", "columns", "skim", "handle"} => lockable(guard)

\* the guard is held while the logs loop reads
C20_Witness ==
  /\ pc = "logs"
  /\ guard = "main"
  /\ chunks = 1
  /\ shown # None
  /\ Cardinality(DOMAIN bindings) > Len(StaticBindings)

\* a preview has taken and dropped the guard
C20_WitnessPreview ==
  /\ pc = "skim"
  /\ shown # None
  /\ guard = "free"

====
